---- MODULE Spec2Model ----
(***************************************************************************)
(* Frame-wise FFT watermark encoder (src/src/encoder.rs, src/src/main.rs). *)
(*                                                                         *)
(* Number representation.  f32 values are held as exact integers over a    *)
(* fixed denominator:                                                      *)
(*   - a normalized sample is its numerator over SAMPLE_DIVISOR (the       *)
(*     division of an i16 by 32768.0 is exact in f32);                     *)
(*   - a spectrum component is held in units of 1/(SAMPLE_DIVISOR*UNIT),   *)
(*     so that the scale factors 1 +/- WATERMARK_STRENGTH are exact        *)
(*     hundredths.                                                         *)
(* Where f32 rounding decides the result (frame length, quantization) the  *)
(* round-to-nearest-even of the 24-bit significand is computed.            *)
(***************************************************************************)
EXTENDS Integers, Naturals, Sequences, FiniteSets, TLC

(* ------------------------------ bounds -------------------------------- *)

\* longest message, in bytes, the pipeline specification draws
MaxLen == 4

\* most frames of audio the pipeline specification draws
MaxFrames == 2

\* message lengths LenSpan around 0 and around the u16 limit (SpecLen)
LenSpan == 24

(* ----------------------------- constants ------------------------------ *)

PILOT_PATTERN == <<0, 1, 0, 1, 0, 1, 0, 1>>

SAMPLE_DIVISOR == 32768

SAMPLE_MULTIPLIER == 32767

START_BIN == 10

\* fixed-point unit of the scale factors: hundredths
UNIT == 100

\* WATERMARK_STRENGTH = 0.15, in hundredths
WATERMARK_STRENGTH == 15

\* WATERMARK_FRAME_DURATION: the f32 nearest 0.02 is FD_MANT / 2^FD_EXP
FD_MANT == 10737418

FD_EXP == 29

\* the significand split in two limbs of LIMB bits, to stay within 32 bits
LIMB == 12

I16_MIN == -32768

I16_MAX == 32767

U16_MOD == 65536

(* ------------------------- integer helpers ---------------------------- *)

RECURSIVE Pow2(_)
Pow2(k) == IF k = 0 THEN 1 ELSE 2 * Pow2(k - 1)

\* number of significant bits of n >= 0
RECURSIVE BitLen(_)
BitLen(n) == IF n = 0 THEN 0 ELSE 1 + BitLen(n \div 2)

FD_HI == FD_MANT \div Pow2(LIMB)

FD_LO == FD_MANT % Pow2(LIMB)

Abs(x) == IF x < 0 THEN -x ELSE x

Min(a, b) == IF a < b THEN a ELSE b

Max(a, b) == IF a > b THEN a ELSE b

\* f32 rounding of a non-negative integer numerator: keep 24 significant
\* bits, round to nearest, ties to even
RoundToF32(n) ==
    LET d == BitLen(n) - 24
    IN  IF d <= 0 THEN n
        ELSE LET q == n \div Pow2(d)
                 r == n % Pow2(d)
                 half == Pow2(d - 1)
                 up == r > half \/ (r = half /\ q % 2 = 1)
             IN  (IF up THEN q + 1 ELSE q) * Pow2(d)

\* f32::round of num/den (num >= 0, den an even power of two): nearest
\* integer, halves away from zero
RoundHalfAway(num, den) == (num + den \div 2) \div den

(* ------------------- STEP 2: build_bit_sequence ----------------------- *)

\* `message_bytes.len() as u16`
LengthHeader(n) == n % U16_MOD

\* (value >> shift) & 1
BitOfMutant(value, shift) == (value \div Pow2(shift + 1)) % 2
BitOf(value, shift) == (value \div Pow2(shift)) % 2

\* for shift in (0..width).rev() { bits.push((value >> shift) & 1) }
BitsMsbFirst(value, width) == [i \in 1..width |-> BitOf(value, width - i)]

RECURSIVE PayloadBits(_)
PayloadBits(message_bytes) ==
    IF message_bytes = <<>> THEN <<>>
    ELSE BitsMsbFirst(Head(message_bytes), 8) \o PayloadBits(Tail(message_bytes))

LengthHeaderBits(n) == BitsMsbFirst(LengthHeader(n), 16)

build_bit_sequence(message_bytes) ==
    PILOT_PATTERN \o LengthHeaderBits(Len(message_bytes)) \o PayloadBits(message_bytes)

(* ----------------- STEP 1 / STEP 4: sample conversion ----------------- *)

\* (sample as f32) / SAMPLE_DIVISOR : exact, kept as the numerator
NormalizeSample(sample) == sample

\* sample.clamp(-1.0, 1.0), on numerators over SAMPLE_DIVISOR
ClampUnit(num) == Max(-SAMPLE_DIVISOR, Min(SAMPLE_DIVISOR, num))

\* (sample.clamp(-1.0, 1.0) * multiplier).round(), then clamp to i16 and cast
QuantizeWith(num, multiplier) ==
    LET c == ClampUnit(num)
        prod == RoundToF32(Abs(c) * multiplier)
        mag == RoundHalfAway(prod, SAMPLE_DIVISOR)
        scaled == IF c < 0 THEN -mag ELSE mag
    IN  Max(I16_MIN, Min(I16_MAX, scaled))

QuantizeSampleMutant(num) == QuantizeWith(num, SAMPLE_DIVISOR)
QuantizeSample(num) == QuantizeWith(num, SAMPLE_MULTIPLIER)

(* ------------------ STEP 3: embed_watermark_fft ----------------------- *)

\* (sample_rate as f32 * WATERMARK_FRAME_DURATION).round()
\* The exact product s * FD_MANT is held as hi * 2^LIMB + lo and rounded to
\* a 24-bit significand m * 2^d before f32::round.
FrameLenRounded(rate) ==
    LET s == RoundToF32(rate)
        hi == s * FD_HI + (s * FD_LO) \div Pow2(LIMB)
        lo == (s * FD_LO) % Pow2(LIMB)
        d == Max(0, BitLen(hi) + LIMB - 24)
        q == IF d <= LIMB THEN hi * Pow2(LIMB - d) + lo \div Pow2(d)
             ELSE hi \div Pow2(d - LIMB)
        r == IF d <= LIMB THEN lo % Pow2(d)
             ELSE (hi % Pow2(d - LIMB)) * Pow2(LIMB) + lo
        up == d > 0 /\ (r > Pow2(d - 1) \/ (r = Pow2(d - 1) /\ q % 2 = 1))
        m == IF up THEN q + 1 ELSE q
    IN  RoundHalfAway(m, Pow2(FD_EXP - d))

\* (..).round().max(1.0) as usize
FrameLenOfMutant(rate) == FrameLenRounded(rate)
FrameLenOf(rate) == Max(1, FrameLenRounded(rate))

\* usize::next_power_of_two
RECURSIVE NextPow2From(_, _)
NextPow2From(p, n) == IF p >= n THEN p ELSE NextPow2From(2 * p, n)

next_power_of_two(n) == NextPow2From(1, n)

\* frame_len.next_power_of_two().max(2)
FftLenOf(len) == Max(next_power_of_two(len), 2)

\* forward.make_output_vec().len()
SpectrumLen(fft) == fft \div 2 + 1

\* spectrum.len().saturating_sub(START_BIN)
UsableMutant(spectrum_len) == spectrum_len
Usable(spectrum_len) == IF spectrum_len > START_BIN THEN spectrum_len - START_BIN ELSE 0

\* complex x * (-i)^e for a real x
Twiddle(x, e) ==
    CASE e % 4 = 0 -> [re |-> x, im |-> 0]
      [] e % 4 = 1 -> [re |-> 0, im |-> -x]
      [] e % 4 = 2 -> [re |-> -x, im |-> 0]
      [] e % 4 = 3 -> [re |-> 0, im |-> x]

\* number of evenly spaced buffer positions the transform is evaluated on
Taps(fft) == IF fft >= 4 THEN 4 ELSE 2

\* forward.process_with_scratch(&mut buffer, &mut spectrum, ..): the real-input
\* DFT  X[k] = SUM_n buffer[n] * exp(-2*pi*i*n*k/fft),  k = 0..fft/2,
\* summed over the positions n that are multiples of fft/Taps(fft), where the
\* twiddle factor is a power of -i.  It is the exact transform of every
\* buffer that is zero elsewhere; the audio drawn by Init is of that kind.
\* Bin k is element k + 1; components are in units of 1/UNIT.
ForwardFFT(buffer, fft) ==
    LET taps == Taps(fft)
        step == fft \div taps
        term(q, k) == Twiddle(buffer[q * step + 1] * UNIT, (4 \div taps) * q * k)
        RECURSIVE Sum(_, _)
        Sum(q, k) == IF q = taps THEN [re |-> 0, im |-> 0]
                     ELSE LET t == term(q, k)
                              rest == Sum(q + 1, k)
                          IN  [re |-> t.re + rest.re, im |-> t.im + rest.im]
    IN  [b \in 1..SpectrumLen(fft) |-> Sum(0, b - 1)]

\* buffer.fill(0.0); buffer[..chunk.len()].copy_from_slice(chunk)
PrepareBufferMutant(old, chunk) ==
    [i \in 1..Len(old) |-> IF i <= Len(chunk) THEN chunk[i] ELSE old[i]]
PrepareBuffer(old, chunk) ==
    [i \in 1..Len(old) |-> IF i <= Len(chunk) THEN chunk[i] ELSE 0]

\* let scale = if bit == 1 { 1.0 + STRENGTH } else { 1.0 - STRENGTH }
ScaleOf(bit) == IF bit = 1 THEN UNIT + WATERMARK_STRENGTH ELSE UNIT - WATERMARK_STRENGTH

\* spectrum[bin].re *= scale; spectrum[bin].im *= scale
ScaleBinMutant(c, scale) == [re |-> (c.re * scale) \div UNIT, im |-> c.im]
ScaleBin(c, scale) == [re |-> (c.re * scale) \div UNIT, im |-> (c.im * scale) \div UNIT]

\* the bits the loop over one frame reads: `bits`, whatever the frame
FrameBitsMutant(all_bits, frame, usable) ==
    SubSeq(all_bits, Min(Len(all_bits), frame * usable) + 1, Len(all_bits))
FrameBits(all_bits, frame, usable) == all_bits

\* index into `bits` of the bit the frame's bit_idx stands for
BitIndex(all_bits, frame, usable, bit_idx) ==
    Len(all_bits) - Len(FrameBits(all_bits, frame, usable)) + bit_idx

\* bits.len().min(usable)
BitsToEncode(frame_bits, spectrum_len) == Min(Len(frame_bits), Usable(spectrum_len))

\* for bit_idx in 0..bits_to_encode { spectrum[START_BIN + bit_idx] *= scale }
Modulate(spec_in, frame_bits) ==
    LET n == BitsToEncode(frame_bits, Len(spec_in))
    IN  [b \in 1..Len(spec_in) |->
            LET bit_idx == (b - 1) - START_BIN
            IN  IF bit_idx >= 0 /\ bit_idx < n
                THEN ScaleBin(spec_in[b], ScaleOf(frame_bits[bit_idx + 1]))
                ELSE spec_in[b]]

\* inverse.process_with_scratch(&mut spectrum, &mut reconstructed, ..):
\* fft_len time-domain values, not evaluated; each is named by its frame and
\* its index in the frame, the frame's spectrum being kept in out_spectra
Reconstructed(frame, fft) == [i \in 1..fft |-> [frame |-> frame, idx |-> i - 1]]

(* ------------------- the decoder (mod decoder) ------------------------ *)

\* energy of one bin
Energy(c) == c.re * c.re + c.im * c.im

\* the bins a decoder scans: the usable bins of each frame, frame by frame
RECURSIVE BinStream(_)
BinStream(spectra) ==
    IF spectra = <<>> THEN <<>>
    ELSE LET s == Head(spectra)
         IN  SubSeq(s, Min(START_BIN, Len(s)) + 1, Len(s)) \o BinStream(Tail(spectra))

\* value of a bit sequence read most-significant bit first
RECURSIVE BitsValue(_)
BitsValue(bs) ==
    IF bs = <<>> THEN 0 ELSE 2 * BitsValue(SubSeq(bs, 1, Len(bs) - 1)) + bs[Len(bs)]

\* threshold calibrated on the pilot bins (midpoint of the two mean energies),
\* then length header and payload read against it
DecodeWatermark(spectra) ==
    LET stream == BinStream(spectra)
        np == Len(PILOT_PATTERN)
        ones == {i \in 1..np : PILOT_PATTERN[i] = 1}
        zeros == {i \in 1..np : PILOT_PATTERN[i] = 0}
        RECURSIVE SumEnergy(_)
        SumEnergy(S) == IF S = {} THEN 0
                        ELSE LET i == CHOOSE j \in S : TRUE
                             IN  Energy(stream[i]) + SumEnergy(S \ {i})
        \* mean of ones = sum/|ones|, the two sets have equal size
        twice_threshold_n == SumEnergy(ones) + SumEnergy(zeros)
        bit(i) == IF 2 * Cardinality(ones) * Energy(stream[i]) > twice_threshold_n
                  THEN 1 ELSE 0
        n == BitsValue([i \in 1..16 |-> bit(np + i)])
    IN  IF Len(stream) < np + 16 THEN [status |-> "TruncatedWatermark", message |-> <<>>]
        ELSE IF Len(stream) < np + 16 + 8 * n
             THEN [status |-> "TruncatedWatermark", message |-> <<>>]
        ELSE [status |-> "ok",
              message |-> [b \in 1..n |->
                  BitsValue([i \in 1..8 |-> bit(np + 16 + 8 * (b - 1) + i)])]]

(* ----------------------------- state ---------------------------------- *)

VARIABLES
    pc,            \* position in encode_sample / main
    message,       \* message.as_bytes()
    message_len,   \* message_bytes.len()
    bits,          \* build_bit_sequence's vector
    sample_rate,   \* spec.sample_rate
    samples,       \* the i16 samples of the input file
    normalized,    \* numerators over SAMPLE_DIVISOR
    frame_len,
    fft_len,
    buffer,        \* the reused FFT input buffer
    spectrum_in,   \* spectrum as the forward transform left it (last frame)
    spectrum,      \* spectrum after the embedding loop (last frame)
    offset,
    frame_count,
    encoded,
    quantized,
    wav_len,       \* samples written to the output file
    out_spectra,   \* spectrum handed to the inverse transform, per frame
    frames_log,    \* per frame: [start, len] of its chunk
    embedded,      \* every <<frame, bin, index into bits>> rescaled so far
    decoded        \* the decoder's result

vars == <<pc, message, message_len, bits, sample_rate, samples, normalized,
          frame_len, fft_len, buffer, spectrum_in, spectrum, offset,
          frame_count, encoded, quantized, wav_len, out_spectra, frames_log,
          embedded, decoded>>

(* ----------------------------- inputs --------------------------------- *)

ByteValues == {65, 200}

\* every message over ByteValues up to MaxLen bytes, and "AB"
Messages == UNION {[1..n -> ByteValues] : n \in 0..MaxLen} \cup {<<65, 66>>}

\* frame lengths 1, 2, 8, 17, 32, 65 and 128
SampleRates == {0, 75, 400, 850, 1600, 3250, 6400}

\* amplitudes of the two impulses of a frame: silence, one impulse (a flat
\* spectrum), two impulses (a coloured spectrum)
Amplitudes == {<<0, 0>>, <<12, 0>>, <<12, 5>>}

NominalFrame(rate) == Max(1, (rate + 25) \div 50)

SampleCounts(flen) ==
    {q * flen + r : q \in 0..(MaxFrames - 1), r \in {0, 1, flen - 1, flen}}

\* n samples, each frame holding an impulse at its start and one a quarter
\* (half, for a 2-point transform) of the transform length later
Audio(n, amp, rate) ==
    LET flen == NominalFrame(rate)
        fft == Max(next_power_of_two(flen), 2)
    IN  [j \in 1..n |->
            LET p == (j - 1) % flen
            IN  IF p = 0 THEN amp[1]
                ELSE IF p = fft \div Taps(fft) THEN amp[2] ELSE 0]

(* ------------------------- encode_sample ------------------------------ *)

Init ==
    /\ pc = "load"
    /\ message \in Messages
    /\ message_len = Len(message)
    /\ sample_rate \in SampleRates
    /\ \E amp \in Amplitudes, n \in SampleCounts(NominalFrame(sample_rate)) :
           samples = Audio(n, amp, sample_rate)
    /\ bits = <<>> /\ normalized = <<>> /\ frame_len = 0 /\ fft_len = 0
    /\ buffer = <<>> /\ spectrum_in = <<>> /\ spectrum = <<>> /\ offset = 0
    /\ frame_count = 0 /\ encoded = <<>> /\ quantized = <<>> /\ wav_len = 0
    /\ out_spectra = <<>> /\ frames_log = <<>> /\ embedded = {}
    /\ decoded = [status |-> "none", message |-> <<>>]

\* Step 1: load_and_normalize_audio
LoadAndNormalize ==
    /\ pc = "load"
    /\ normalized' = [j \in 1..Len(samples) |-> NormalizeSample(samples[j])]
    /\ pc' = "build"
    /\ UNCHANGED <<message, message_len, bits, sample_rate, samples, frame_len,
                   fft_len, buffer, spectrum_in, spectrum, offset, frame_count,
                   encoded, quantized, wav_len, out_spectra, frames_log,
                   embedded, decoded>>

\* Step 2: build_bit_sequence
BuildBitSequence ==
    /\ pc = "build"
    /\ bits' = build_bit_sequence(message)
    /\ pc' = "embed"
    /\ UNCHANGED <<message, message_len, sample_rate, samples, normalized,
                   frame_len, fft_len, buffer, spectrum_in, spectrum, offset,
                   frame_count, encoded, quantized, wav_len, out_spectra,
                   frames_log, embedded, decoded>>

\* Step 3, before the loop: frame parameters and buffers
EmbedSetup ==
    /\ pc = "embed"
    /\ frame_len' = FrameLenOf(sample_rate)
    /\ fft_len' = FftLenOf(frame_len')
    /\ buffer' = [i \in 1..fft_len' |-> 0]
    /\ spectrum' = [b \in 1..SpectrumLen(fft_len') |-> [re |-> 0, im |-> 0]]
    /\ spectrum_in' = spectrum'
    /\ encoded' = <<>>
    /\ frame_count' = 0
    /\ offset' = 0
    /\ pc' = "frames"
    /\ UNCHANGED <<message, message_len, bits, sample_rate, samples, normalized,
                   quantized, wav_len, out_spectra, frames_log, embedded, decoded>>

\* Step 3, one iteration of `while offset < normalized.len()`
EmbedFrame ==
    /\ pc = "frames"
    /\ offset < Len(normalized)
    /\ LET end == Min(offset + frame_len, Len(normalized))
           chunk == SubSeq(normalized, offset + 1, end)
           frame_bits == FrameBits(bits, frame_count, Usable(Len(spectrum)))
           n == BitsToEncode(frame_bits, Len(spectrum))
       IN  IF Len(chunk) > Len(buffer) \/ (n > 0 /\ START_BIN + n > Len(spectrum))
           THEN \* slice or index out of range: the thread panics
                /\ pc' = "panic"
                /\ UNCHANGED <<buffer, spectrum_in, spectrum, offset, frame_count,
                               encoded, out_spectra, frames_log, embedded>>
           ELSE /\ buffer' = PrepareBuffer(buffer, chunk)
                /\ spectrum_in' = ForwardFFT(buffer', fft_len)
                /\ spectrum' = Modulate(spectrum_in', frame_bits)
                /\ embedded' = embedded \cup
                       {<<frame_count, START_BIN + i,
                          BitIndex(bits, frame_count, Usable(Len(spectrum)), i)>> :
                            i \in 0..(n - 1)}
                /\ out_spectra' = Append(out_spectra, spectrum')
                /\ encoded' = encoded \o
                       SubSeq(Reconstructed(frame_count, fft_len), 1, Len(chunk))
                /\ frames_log' = Append(frames_log, [start |-> offset, len |-> Len(chunk)])
                /\ offset' = offset + Len(chunk)
                /\ frame_count' = frame_count + 1
                /\ pc' = "frames"
    /\ UNCHANGED <<message, message_len, bits, sample_rate, samples, normalized,
                   frame_len, fft_len, quantized, wav_len, decoded>>

\* Step 3, loop exit
EmbedReturn ==
    /\ pc = "frames"
    /\ ~(offset < Len(normalized))
    /\ pc' = "quantize"
    /\ UNCHANGED <<message, message_len, bits, sample_rate, samples, normalized,
                   frame_len, fft_len, buffer, spectrum_in, spectrum, offset,
                   frame_count, encoded, quantized, wav_len, out_spectra,
                   frames_log, embedded, decoded>>

\* Steps 4 and 5: one i16 per encoded sample, written in order
QuantizeAndWrite ==
    /\ pc = "quantize"
    /\ wav_len' = Len(encoded)
    /\ pc' = "decode"
    /\ UNCHANGED <<message, message_len, bits, sample_rate, samples, normalized,
                   frame_len, fft_len, buffer, spectrum_in, spectrum, offset,
                   frame_count, encoded, quantized, out_spectra, frames_log,
                   embedded, decoded>>

\* decoder::decode_watermarked_sample on the written file, the frames of
\* which transform back to the spectra the inverse transform was given
Decode ==
    /\ pc = "decode"
    /\ decoded' = DecodeWatermark(out_spectra)
    /\ pc' = "done"
    /\ UNCHANGED <<message, message_len, bits, sample_rate, samples, normalized,
                   frame_len, fft_len, buffer, spectrum_in, spectrum, offset,
                   frame_count, encoded, quantized, wav_len, out_spectra,
                   frames_log, embedded>>

Next ==
    \/ LoadAndNormalize
    \/ BuildBitSequence
    \/ EmbedSetup
    \/ EmbedFrame
    \/ EmbedReturn
    \/ QuantizeAndWrite
    \/ Decode

Spec == Init /\ [][Next]_vars

(* ------------- build_bit_sequence, the length header alone ------------ *)

LenValues == (0..LenSpan) \cup ((U16_MOD - 1 - LenSpan)..(U16_MOD + LenSpan))

InitLen ==
    /\ pc = "len_start"
    /\ message_len \in LenValues
    /\ message = <<>> /\ bits = <<>> /\ sample_rate = 0
    /\ samples = <<>> /\ normalized = <<>> /\ frame_len = 0 /\ fft_len = 0
    /\ buffer = <<>> /\ spectrum_in = <<>> /\ spectrum = <<>> /\ offset = 0
    /\ frame_count = 0 /\ encoded = <<>> /\ quantized = <<>> /\ wav_len = 0
    /\ out_spectra = <<>> /\ frames_log = <<>> /\ embedded = {}
    /\ decoded = [status |-> "none", message |-> <<>>]

\* build_bit_sequence up to the end of the length-header loop, for a message
\* of message_len bytes
BuildHeader ==
    /\ pc = "len_start"
    /\ bits' = PILOT_PATTERN \o LengthHeaderBits(message_len)
    /\ pc' = "len_built"
    /\ UNCHANGED <<message, message_len, sample_rate, samples, normalized,
                   frame_len, fft_len, buffer, spectrum_in, spectrum, offset,
                   frame_count, encoded, quantized, wav_len, out_spectra,
                   frames_log, embedded, decoded>>

NextLen == BuildHeader

SpecLen == InitLen /\ [][NextLen]_vars

(* ---------------- normalize, then quantize, one sample ---------------- *)

InitQuant ==
    /\ pc = "q_load"
    /\ \E x \in I16_MIN..I16_MAX : samples = <<x>>
    /\ message = <<>> /\ message_len = 0 /\ bits = <<>> /\ sample_rate = 0
    /\ normalized = <<>> /\ frame_len = 0 /\ fft_len = 0
    /\ buffer = <<>> /\ spectrum_in = <<>> /\ spectrum = <<>> /\ offset = 0
    /\ frame_count = 0 /\ encoded = <<>> /\ quantized = <<>> /\ wav_len = 0
    /\ out_spectra = <<>> /\ frames_log = <<>> /\ embedded = {}
    /\ decoded = [status |-> "none", message |-> <<>>]

\* the sample loop of load_and_normalize_audio
NormalizeSamples ==
    /\ pc = "q_load"
    /\ normalized' = [j \in 1..Len(samples) |-> NormalizeSample(samples[j])]
    /\ pc' = "q_quantize"
    /\ UNCHANGED <<message, message_len, bits, sample_rate, samples, frame_len,
                   fft_len, buffer, spectrum_in, spectrum, offset, frame_count,
                   encoded, quantized, wav_len, out_spectra, frames_log,
                   embedded, decoded>>

\* quantize_to_i16 on the normalized samples
QuantizeSamples ==
    /\ pc = "q_quantize"
    /\ quantized' = [j \in 1..Len(normalized) |-> QuantizeSample(normalized[j])]
    /\ pc' = "q_done"
    /\ UNCHANGED <<message, message_len, bits, sample_rate, samples, normalized,
                   frame_len, fft_len, buffer, spectrum_in, spectrum, offset,
                   frame_count, encoded, wav_len, out_spectra, frames_log,
                   embedded, decoded>>

NextQuant == NormalizeSamples \/ QuantizeSamples

SpecQuant == InitQuant /\ [][NextQuant]_vars

(* ----------------------------- claims --------------------------------- *)

\* positions of encode_sample at or after the frame loop of Step 3
InLoopOrLater == pc \in {"frames", "quantize", "decode", "done"}

\* usable bins of one frame, counted from the spectrum length alone
UsableBins == IF Len(spectrum) > 10 THEN Len(spectrum) - 10 ELSE 0

IsPow2(n) == \E k \in 0..30 : n = Pow2(k)

\* C1: round trip.  For every message whose bit sequence fits the usable
\* bins of a frame, decoding the encoded audio returns exactly the message.
C1_RoundTrip ==
    (pc = "done" /\ frame_count >= 1 /\ Len(bits) <= UsableBins)
        => decoded = [status |-> "ok", message |-> message]

\* C2: the bit sequence is the 8 pilot bits 0,1,0,1,0,1,0,1, the byte count
\* as 16 bits most-significant first, then every byte as 8 bits
\* most-significant first: 8 + 16 + 8 * bytes elements, each 0 or 1; for
\* "AB" 40 bits with header 0000000000000010 and payload 01000001 01000010.
C2_BitSequence ==
    (pc \in {"embed", "frames", "quantize", "decode", "done"}) =>
        /\ Len(bits) = 8 + 16 + 8 * Len(message)
        /\ \A i \in 1..Len(bits) : bits[i] \in {0, 1}
        /\ SubSeq(bits, 1, 8) = <<0, 1, 0, 1, 0, 1, 0, 1>>
        /\ BitsValue(SubSeq(bits, 9, 24)) = Len(message)
        /\ \A b \in 1..Len(message) :
               BitsValue(SubSeq(bits, 24 + 8 * (b - 1) + 1, 24 + 8 * b)) = message[b]
        /\ message = <<65, 66>> =>
               /\ SubSeq(bits, 9, 24) = <<0,0,0,0,0,0,0,0,0,0,0,0,0,0,1,0>>
               /\ SubSeq(bits, 25, 40) = <<0,1,0,0,0,0,0,1, 0,1,0,0,0,0,1,0>>

C2_Witness ==
    /\ pc = "embed"
    /\ message = <<65, 66>>
    /\ bits = <<0,1,0,1,0,1,0,1, 0,0,0,0,0,0,0,0,0,0,0,0,0,0,1,0,
                0,1,0,0,0,0,0,1, 0,1,0,0,0,0,1,0>>

\* C3: a message longer than 65535 bytes is rejected, so that no bit
\* sequence with a truncated length header is produced; 65535 bytes are
\* accepted with their own length in the header.
C3_HeaderOverflowRejected ==
    (pc = "len_built") =>
        IF message_len <= 65535
        THEN bits # <<>> /\ BitsValue(SubSeq(bits, 9, 24)) = message_len
        ELSE bits = <<>>

\* C4: a bit sequence exactly as long as the usable bins is embedded
\* completely, and a bit sequence one bit longer is rejected before any
\* embedding: no frame is processed and no bin rescaled.
C4_CapacityBoundary ==
    InLoopOrLater =>
        /\ (frame_count >= 1 /\ Len(bits) = UsableBins) =>
               \A i \in 0..(Len(bits) - 1) : <<0, 10 + i, i>> \in embedded
        /\ (Len(bits) = UsableBins + 1) =>
               frame_count = 0 /\ embedded = {} /\ encoded = <<>>

C6_FrameEffect ==
    (InLoopOrLater /\ frame_count >= 1) =>
        LET S == Len(spectrum)
            n == Min(Len(bits), S - 10)
        IN  /\ Len(spectrum_in) = S
            /\ \A k \in 0..(S - 1) :
                   IF k >= 10 /\ k < 10 + n
                   THEN LET f == IF bits[k - 10 + 1] = 1 THEN 115 ELSE 85
                        IN  /\ 100 * spectrum[k + 1].re = f * spectrum_in[k + 1].re
                            /\ 100 * spectrum[k + 1].im = f * spectrum_in[k + 1].im
                   ELSE spectrum[k + 1] = spectrum_in[k + 1]

C6_Witness ==
    /\ pc = "frames"
    /\ frame_count >= 1
    /\ Len(spectrum) > 10 + Len(bits)
    /\ \E k \in 10..(10 + Len(bits) - 1) :
           /\ bits[k - 10 + 1] = 1
           /\ spectrum_in[k + 1].im # 0
           /\ spectrum[k + 1].im # spectrum_in[k + 1].im
    /\ \E k \in 10..(10 + Len(bits) - 1) :
           /\ bits[k - 10 + 1] = 0
           /\ spectrum_in[k + 1].re # 0
           /\ spectrum[k + 1].re # spectrum_in[k + 1].re
    /\ spectrum[10 + Len(bits) + 1] = spectrum_in[10 + Len(bits) + 1]
    /\ spectrum_in[10 + Len(bits) + 1].re # 0

\* C7: frames start at 0, frame_len, 2 * frame_len, ..; every frame but the
\* last holds frame_len samples and the last the remainder, zero-padded to
\* the transform length; each input sample is in exactly one frame; the
\* output has as many samples as the input, in the same order.
C7_Segmentation ==
    LET F == Len(frames_log)
    IN  /\ \A f \in 1..F :
               /\ frames_log[f].start = (f - 1) * frame_len
               /\ frames_log[f].len >= 1
               /\ frames_log[f].len <= frame_len
               /\ f < F => frames_log[f].len = frame_len
        /\ F >= 1 =>
               /\ Len(buffer) = fft_len
               /\ \A i \in 1..fft_len :
                      buffer[i] = IF i <= frames_log[F].len
                                  THEN normalized[frames_log[F].start + i]
                                  ELSE 0
        /\ Len(encoded) = offset
        /\ \A j \in 1..Len(encoded) :
               encoded[j] = [frame |-> (j - 1) \div frame_len, idx |-> (j - 1) % frame_len]
        /\ pc \in {"quantize", "decode", "done"} =>
               /\ Len(encoded) = Len(normalized)
               /\ F >= 1 => frames_log[F].len = Len(normalized) - (F - 1) * frame_len
               /\ \A j \in 1..Len(normalized) :
                      Cardinality({f \in 1..F :
                          /\ frames_log[f].start < j
                          /\ j <= frames_log[f].start + frames_log[f].len}) = 1

C7_Witness ==
    /\ pc = "quantize"
    /\ Len(frames_log) = 2
    /\ frames_log[2].len < frame_len
    /\ frames_log[2].len < fft_len
    /\ \E i \in 1..frame_len : normalized[i] # 0 /\ i > frames_log[2].len

\* C8: for every i16 sample x, quantizing its normalized value gives an
\* integer within 1 of x that lies in [-32767, 32767].
C8_QuantizeNormalize ==
    (pc = "q_done") =>
        \A j \in 1..Len(samples) :
            /\ quantized[j] - samples[j] \in {-1, 0, 1}
            /\ quantized[j] >= -32767
            /\ quantized[j] <= 32767

C8_Witness == pc = "q_done" /\ samples = <<-32768>> /\ quantized = <<-32767>>

\* C9: no index is out of range: frame_len >= 1, fft_len is a power of two
\* with fft_len >= max(2, frame_len), every chunk fits the transform buffer,
\* every modulated bin 10 + i is below the spectrum length fft_len/2 + 1,
\* and nothing is modulated when the spectrum has 10 or fewer bins.
C9_NoIndexOutOfRange ==
    /\ pc # "panic"
    /\ InLoopOrLater =>
           /\ frame_len >= 1
           /\ IsPow2(fft_len)
           /\ fft_len >= 2
           /\ fft_len >= frame_len
           /\ Len(buffer) = fft_len
           /\ Len(spectrum) = fft_len \div 2 + 1
           /\ \A f \in 1..Len(frames_log) :
                  /\ frames_log[f].len <= Len(buffer)
                  /\ frames_log[f].start + frames_log[f].len <= Len(normalized)
           /\ \A t \in embedded :
                  /\ t[2] >= 10
                  /\ t[2] < Len(spectrum)
                  /\ t[3] >= 0
                  /\ t[3] < Len(bits)
           /\ Len(spectrum) <= 10 => embedded = {}

C9_Witness ==
    /\ pc = "quantize"
    /\ frame_count >= 1
    /\ Len(bits) > UsableBins
    /\ <<0, Len(spectrum) - 1, Len(spectrum) - 11>> \in embedded

\* C10: the frame loop terminates: every iteration advances the offset by
\* at least one sample and at most frame_len (so the samples left, a natural
\* number, strictly decrease), the offset never passes the buffer length,
\* and the loop ends after ceil(len / frame_len) frames, none for an empty
\* buffer.
C10_LoopStep ==
    (pc = "frames" /\ pc' # "quantize") =>
        /\ pc' = "frames"
        /\ frame_count' = frame_count + 1
        /\ offset' >= offset + 1
        /\ offset' <= offset + frame_len
        /\ Len(normalized) - offset' < Len(normalized) - offset
        /\ Len(normalized) - offset' >= 0

C10_LoopBounds ==
    /\ offset <= Len(normalized)
    /\ InLoopOrLater =>
           /\ frame_len >= 1
           /\ frame_count = (offset + frame_len - 1) \div frame_len
    /\ pc \in {"quantize", "decode", "done"} =>
           /\ offset = Len(normalized)
           /\ frame_count = (Len(normalized) + frame_len - 1) \div frame_len
           /\ Len(normalized) = 0 => frame_count = 0

C10_Terminates == []C10_LoopBounds /\ [][C10_LoopStep]_vars

C10_Witness ==
    /\ pc = "quantize"
    /\ frame_count = 2
    /\ frame_len > 1
    /\ Len(normalized) % frame_len # 0

====
